---------------------------- MODULE Spec2Model ----------------------------
(***************************************************************************)
(* A model of spec0_bot.py, the SPEC-0 dependency-freshness bot.           *)
(*                                                                         *)
(* Text is modelled as it is in the program: a line is a sequence of       *)
(* one-character strings (its trailing "\n" included, as readlines()       *)
(* returns it), a file is the sequence of its lines.  Regular expressions  *)
(* are modelled by matchers that scan the characters the way re does.      *)
(* Times are whole seconds; a datetime is a number of seconds.             *)
(*                                                                         *)
(* Three specifications share the definitions:                             *)
(*   Spec         one run of main() over a working tree and an index;      *)
(*   SpecRewrite  direct calls of the three rewriters on a file;           *)
(*   SpecEval     direct calls of get_release_date, is_outdated and        *)
(*                get_latest_version on an index response.                 *)
(***************************************************************************)
EXTENDS Integers, Sequences, FiniteSets, TLC

VARIABLES
    pc,             \* position in main() / in the calling harness
    dry_run,        \* main's dry_run argument
    disk,           \* path -> [exists, lines]: the working tree
    disk0,          \* the working tree when the run began (history)
    index,          \* package name -> the JSON body PyPI serves for it
    deps,           \* main: deps, the parsed lines of requirements.txt
    i,              \* main: position of the for loop over deps
    outdated_pkgs,  \* main: outdated_pkgs, tuples <<pkg, old, new>>
    evals,          \* history: what each loop iteration found, in order
    log,            \* the "path: old -> new" lines printed so far
    changed,        \* history: paths for which a rewriter computed new_lines # lines
    visited,        \* history: paths a rewriter was called on
    git,            \* the git subcommands run by commit_and_open_pr
    pr,             \* commit_and_open_pr: "none" | "dry" | "no_github" | "no_creds" | "opened"
    target,         \* SpecRewrite: the path the rewriter is called on
    disk1,          \* SpecRewrite: the file after the first call (history)
    resp,           \* SpecEval: the index response handed to the functions
    version,        \* SpecEval: the declared version looked up
    release_date,   \* SpecEval: result of get_release_date
    outdated,       \* SpecEval: result of is_outdated ("unset" before the call)
    latest          \* SpecEval: result of get_latest_version

vars == << pc, dry_run, disk, disk0, index, deps, i, outdated_pkgs, evals, log,
           changed, visited, git, pr, target, disk1, resp, version,
           release_date, outdated, latest >>

---------------------------------------------------------------------------
(* Bounds of the model.                                                    *)

\* longest file, in lines, handed to a rewriter in SpecRewrite
MaxLines == 3
\* longest outdated list handed to a rewriter in SpecRewrite
MaxOutdated == 2
\* most releases in a generated index response
MaxReleases == 2

---------------------------------------------------------------------------
(* Characters and strings.                                                 *)

\* Python's None for an optional string or datetime: the empty sequence.
\* A present datetime t is <<t>>; a present string is its characters.
None == << >>

Digit == {"0", "1", "2", "3", "4", "5", "6", "7", "8", "9"}

Letter ==
    {"a", "b", "c", "d", "e", "f", "g", "h", "i", "j", "k", "l", "m",
     "n", "o", "p", "q", "r", "s", "t", "u", "v", "w", "x", "y", "z",
     "A", "B", "C", "D", "E", "F", "G", "H", "I", "J", "K", "L", "M",
     "N", "O", "P", "Q", "R", "S", "T", "U", "V", "W", "X", "Y", "Z"}

\* what str.strip() removes and the regex class \s matches
Whitespace == {" ", "\t", "\n"}

\* the regex class [<>=!~]
OpChar == {"<", ">", "=", "!", "~"}

\* the regex class [\d\.a-zA-Z]
VersionChar == Digit \cup Letter \cup {"."}

\* the characters of a distribution name (packaging's IDENTIFIER token)
NameChar == Digit \cup Letter \cup {"-", "_", "."}

Drop(s, n) == SubSeq(s, n + 1, Len(s))

Take(s, n) == SubSeq(s, 1, n)

\* s[p..] starts with lit
StartsWithAt(s, p, lit) ==
    /\ p + Len(lit) - 1 <= Len(s)
    /\ SubSeq(s, p, p + Len(lit) - 1) = lit

\* str.startswith
StartsWith(s, lit) == StartsWithAt(s, 1, lit)

\* Python's "lit in s"
Contains(s, lit) == \E p \in 1..(Len(s) + 1) : StartsWithAt(s, p, lit)

\* the first position >= p of s that holds no character of cls (Len(s)+1 if none):
\* where a greedy cls* started at p stops
RECURSIVE SkipWhile(_, _, _)
SkipWhile(s, p, cls) ==
    IF p <= Len(s) /\ s[p] \in cls THEN SkipWhile(s, p + 1, cls) ELSE p

\* the last position <= p of s that holds no character of cls (0 if none)
RECURSIVE SkipBack(_, _, _)
SkipBack(s, p, cls) ==
    IF p >= 1 /\ s[p] \in cls THEN SkipBack(s, p - 1, cls) ELSE p

\* str.strip(chars)
StripChars(s, cls) == SubSeq(s, SkipWhile(s, 1, cls), SkipBack(s, Len(s), cls))

\* str.strip()
Strip(s) == StripChars(s, Whitespace)

---------------------------------------------------------------------------
(* packaging.version.Version and packaging.requirements.Requirement, for   *)
(* the requirement strings of the model: a name, optional extras, and a    *)
(* comma-separated list of <operator><version> with versions made of       *)
(* digits and dots.  URLs, markers, parentheses and pre/post/dev/local     *)
(* version parts are outside the model's inputs and are rejected.          *)

\* a release segment without its leading zeros, as int() reads it
RECURSIVE DropLeadingZeros(_)
DropLeadingZeros(seg) ==
    IF Len(seg) > 1 /\ seg[1] = "0" THEN DropLeadingZeros(Drop(seg, 1)) ELSE seg

\* Version(v) accepts v: digits separated by single dots
RECURSIVE IsVersion(_)
IsVersion(v) ==
    LET Segment(e) ==
            /\ e > 1
            /\ \/ e = Len(v) + 1
               \/ e <= Len(v) /\ v[e] = "." /\ IsVersion(Drop(v, e))
    IN  Segment(SkipWhile(v, 1, Digit))

\* str(Version(v)): every segment normalised
RECURSIVE NormVersion(_)
NormVersion(v) ==
    LET Segment(e) ==
            IF e > Len(v)
            THEN DropLeadingZeros(v)
            ELSE DropLeadingZeros(Take(v, e - 1)) \o <<".">> \o NormVersion(Drop(v, e))
    IN  Segment(SkipWhile(v, 1, Digit))

\* the least element of a set of positions (0 if empty)
First(hits) ==
    IF hits = {} THEN 0 ELSE CHOOSE k \in hits : \A m \in hits : k <= m

\* the specifier operators of PEP 440, longest first as the tokenizer tries them
SpecOps ==
    << <<"=", "=", "=">>, <<"=", "=">>, <<"~", "=">>, <<"!", "=">>, <<"<", "=">>, <<">", "=">>, <<"<">>, <<">">> >>

\* the operator s[p..] starts with (None if none)
OpAt(s, p) ==
    LET Pick(k) == IF k = 0 THEN None ELSE SpecOps[k]
    IN  Pick(First({k \in 1..Len(SpecOps) : StartsWithAt(s, p, SpecOps[k])}))

\* the specifier list from position p on: [ok, specs], specs a sequence of
\* <<operator, version>> in textual order; ok is FALSE on a syntax error.
\* Read from the bottom: whitespace, the operator at p1, whitespace, the
\* version from p2 to p3, whitespace, then the end or a comma at p4.
RECURSIVE ParseSpecs(_, _)
ParseSpecs(s, p) ==
    LET bad == [ok |-> FALSE, specs |-> << >>]
        More(op, v, rest) ==
            [ok |-> rest.ok, specs |-> << <<op, v>> >> \o rest.specs]
        AfterVersion(op, v, p4) ==
            IF op = None \/ ~IsVersion(v) THEN bad
            ELSE IF p4 > Len(s) THEN [ok |-> TRUE, specs |-> << <<op, v>> >>]
            ELSE IF s[p4] = "," THEN More(op, v, ParseSpecs(s, p4 + 1))
            ELSE bad
        VersionTo(op, p2, p3) ==
            AfterVersion(op, SubSeq(s, p2, p3 - 1), SkipWhile(s, p3, Whitespace))
        VersionFrom(op, p2) ==
            VersionTo(op, p2, SkipWhile(s, p2, Digit \cup {"."}))
        Operator(p1, op) ==
            VersionFrom(op, SkipWhile(s, p1 + Len(op), Whitespace))
        OperatorAt(p1) == Operator(p1, OpAt(s, p1))
    IN  OperatorAt(SkipWhile(s, p, Whitespace))

\* Requirement(s): [ok, name, specs]; ok is FALSE where Requirement raises.
\* Read from the bottom: whitespace, the name from p0 to p1, whitespace,
\* optional extras "[...]" at p2, whitespace, the specifiers from p3.
Requirement(s) ==
    LET bad == [ok |-> FALSE, name |-> None, specs |-> << >>]
        Parsed(nm, r) ==
            IF r.ok THEN [ok |-> TRUE, name |-> nm, specs |-> r.specs] ELSE bad
        Specs(nm, p3) ==
            IF p3 > Len(s) THEN [ok |-> TRUE, name |-> nm, specs |-> << >>]
            ELSE Parsed(nm, ParseSpecs(s, p3))
        ExtrasTo(nm, pe) ==
            IF pe <= Len(s) /\ s[pe] = "]"
            THEN Specs(nm, SkipWhile(s, pe + 1, Whitespace))
            ELSE bad
        Extras(nm, p2) ==
            IF p2 <= Len(s) /\ s[p2] = "["
            THEN ExtrasTo(nm, SkipWhile(s, p2 + 1, NameChar \cup Whitespace \cup {","}))
            ELSE Specs(nm, p2)
        Named(nm, p1) ==
            IF \/ nm = None
               \/ nm[1] \notin (Digit \cup Letter)
               \/ nm[Len(nm)] \notin (Digit \cup Letter \cup {"_"})
            THEN bad
            ELSE Extras(nm, SkipWhile(s, p1, Whitespace))
        NameTo(p0, p1) == Named(SubSeq(s, p0, p1 - 1), p1)
        NameFrom(p0) == NameTo(p0, SkipWhile(s, p0, NameChar))
    IN  NameFrom(SkipWhile(s, 1, Whitespace))

---------------------------------------------------------------------------
(* Time.                                                                   *)

SPEC0_DEP_AGE_YEARS == 2

\* 24 * 3600, the seconds of a day (timedelta.days counts whole ones)
SecondsPerDay == 24 * 3600

\* 365.25 * 24 * 3600, the seconds of the program's year
SecondsPerYear == (1461 * SecondsPerDay) \div 4

\* datetime.now(), the same instant for the whole run
Now == 4000 * SecondsPerDay

---------------------------------------------------------------------------
(* The index client and the compliance evaluator.                          *)
(*                                                                         *)
(* An index response is [ok, releases]: ok is FALSE when the request or    *)
(* the JSON decoding fails; releases is the "releases" mapping in document *)
(* order, one [version, files, time] per key, where files is "none" (an    *)
(* empty file list), "notime" (a first file without upload_time_iso_8601)  *)
(* or "time" (a first file uploaded at `time`).                            *)

HttpError == [ok |-> FALSE, releases |-> << >>]

\* parse_requirements_txt, on the lines of the file
RECURSIVE parse_requirements_txt(_)
parse_requirements_txt(lines) ==
    IF lines = << >> THEN << >>
    ELSE (IF Strip(lines[1]) # << >> /\ ~StartsWith(lines[1], <<"#">>)
          THEN <<Strip(lines[1])>>
          ELSE << >>)
         \o parse_requirements_txt(Drop(lines, 1))

\* get_release_date: None, or <<t>> for the upload time t
get_release_date(response, ver) ==
    LET Upload(rel) == IF rel.files = "time" THEN <<rel.time>> ELSE None
        Lookup(k) == IF k = 0 THEN None ELSE Upload(response.releases[k])
        Find(version_str) ==
            Lookup(First({k \in 1..Len(response.releases) :
                            response.releases[k].version = version_str}))
    IN  IF ~response.ok \/ ~IsVersion(ver) THEN None
        ELSE Find(NormVersion(ver))

\* spec0_cutoff with a year of 366 days
spec0_cutoff_366 == Now - SPEC0_DEP_AGE_YEARS * 366 * SecondsPerDay

\* spec0_cutoff of get_latest_version
spec0_cutoff == Now - SPEC0_DEP_AGE_YEARS * SecondsPerYear

\* the test of the loop of get_latest_version on one key of "releases"
IsCompliantRelease(rel) ==
    /\ rel.files = "time"
    /\ rel.time >= spec0_cutoff
    /\ IsVersion(rel.version)

\* compliant_versions of get_latest_version: the releases kept by the loop,
\* in document order
RECURSIVE compliant_versions(_)
compliant_versions(releases) ==
    IF releases = << >> THEN << >>
    ELSE (IF IsCompliantRelease(releases[1]) THEN <<releases[1]>> ELSE << >>)
         \o compliant_versions(Drop(releases, 1))

\* rel put into a sequence sorted by time, after the entries of equal time
RECURSIVE InsertByTime(_, _)
InsertByTime(sorted, rel) ==
    IF sorted = << >> THEN <<rel>>
    ELSE IF rel.time < sorted[1].time THEN <<rel>> \o sorted
    ELSE <<sorted[1]>> \o InsertByTime(Drop(sorted, 1), rel)

\* sorted(compliant_versions, key=lambda x: x[1]): a stable sort
RECURSIVE SortedByTime(_)
SortedByTime(rels) ==
    IF rels = << >> THEN << >>
    ELSE InsertByTime(SortedByTime(Take(rels, Len(rels) - 1)), rels[Len(rels)])

\* get_latest_version taking the newest of the versions kept
get_latest_version_newest(response) ==
    LET Newest(kept) ==
            IF kept # << >>
            THEN NormVersion(SortedByTime(kept)[Len(kept)].version)
            ELSE None
    IN  IF ~response.ok THEN None
        ELSE Newest(compliant_versions(response.releases))

\* get_latest_version: None, or the oldest version uploaded since the cutoff
get_latest_version(response) ==
    LET Oldest(kept) ==
            IF kept # << >>
            THEN NormVersion(SortedByTime(kept)[1].version)
            ELSE None
    IN  IF ~response.ok THEN None
        ELSE Oldest(compliant_versions(response.releases))

\* is_outdated with total seconds in place of timedelta.days
is_outdated_seconds(date, max_years) ==
    /\ date # None
    /\ Now - date[1] > max_years * SecondsPerYear

\* is_outdated: (now - release_date).days / 365.25 > max_years
is_outdated(date, max_years) ==
    /\ date # None
    /\ ((Now - date[1]) \div SecondsPerDay) * 100 > max_years * 36525

\* extract_required_version: the set of results <<name, version>> the call
\* may return.  req.specifier iterates a set of specifiers, so with several
\* ">=" / "==" specifiers any of them may come first.
extract_required_version(dep) ==
    LET Bounds(req, hits) ==
            IF hits = {} THEN {<<req.name, None>>}
            ELSE {<<req.name, NormVersion(req.specs[k][2])>> : k \in hits}
        Extract(req) ==
            IF ~req.ok THEN {<<None, None>>}
            ELSE Bounds(req, {k \in 1..Len(req.specs) :
                                req.specs[k][1] \in {<<">", "=">>, <<"=", "=">>}})
    IN  Extract(Requirement(dep))

---------------------------------------------------------------------------
(* The three rewriters.  Each returns [lines, printed]: new_lines and the  *)
(* messages <<path, old, new>> it prints.                                  *)

\* the result of one iteration followed by the result of the rest
Join(one, rest) ==
    [lines |-> <<one.line>> \o rest.lines, printed |-> one.printed \o rest.printed]

\* a line passed through
Kept(line) == [line |-> line, printed |-> << >>]

\* a line replaced, and the message printed for it
Replaced(path, old, new_line) ==
    [line |-> new_line, printed |-> << <<path, old, Strip(new_line)>> >>]

\* re.compile(rf"^{re.escape(pkg)}\s*([<>=!~]=?.*)?$").match(stripped)
RequirementLineMatches(stripped, pkg) ==
    LET After(q) == q > Len(stripped) \/ stripped[q] \in OpChar
    IN  /\ StartsWith(stripped, pkg)
        /\ After(SkipWhile(stripped, Len(pkg) + 1, Whitespace))

\* one iteration of the loop of patch_requirements_file; k is the first
\* entry of outdated whose pattern matches (0 if none)
PatchRequirementsLine(path, line, entries) ==
    LET Patch(stripped, k) ==
            IF StartsWith(stripped, <<"#">>) \/ stripped = << >> \/ k = 0
            THEN Kept(line)
            ELSE Replaced(path, stripped,
                          entries[k][1] \o <<">", "=">> \o entries[k][3] \o <<"\n">>)
        Match(stripped) ==
            Patch(stripped,
                  First({m \in 1..Len(entries) :
                           RequirementLineMatches(stripped, entries[m][1])}))
    IN  Match(Strip(line))

\* the loop of patch_requirements_file from line j on
RECURSIVE PatchRequirementsFrom(_, _, _, _)
PatchRequirementsFrom(path, lines, j, entries) ==
    IF j > Len(lines) THEN [lines |-> << >>, printed |-> << >>]
    ELSE Join(PatchRequirementsLine(path, lines[j], entries),
              PatchRequirementsFrom(path, lines, j + 1, entries))

\* patch_requirements_file, up to the write
patch_requirements_file(path, lines, entries) ==
    PatchRequirementsFrom(path, lines, 1, entries)

\* get_line_package of patch_pyproject_file
get_line_package(line) ==
    LET Name(req) == IF req.ok THEN req.name ELSE None
    IN  Name(Requirement(StripChars(Strip(line), {"\"", ","})))

\* where a match of r">=?\s*[\d\.a-zA-Z]+" starting at p ends (0: no match)
BoundMatchEnd(s, p) ==
    LET Version(q2, q3) == IF q3 > q2 THEN q3 - 1 ELSE 0
        Spaces(q2) == Version(q2, SkipWhile(s, q2, VersionChar))
        Equals(q1) == Spaces(SkipWhile(s, q1, Whitespace))
    IN  IF p > Len(s) \/ s[p] # ">" THEN 0
        ELSE Equals(IF p + 1 <= Len(s) /\ s[p + 1] = "=" THEN p + 2 ELSE p + 1)

\* re.sub(r">=?\s*[\d\.a-zA-Z]+", repl, s) from position p on
RECURSIVE SubBound(_, _, _)
SubBound(s, p, repl) ==
    LET Step(e) ==
            IF e > 0 THEN repl \o SubBound(s, e + 1, repl)
            ELSE <<s[p]>> \o SubBound(s, p + 1, repl)
    IN  IF p > Len(s) THEN << >> ELSE Step(BoundMatchEnd(s, p))

\* inside_deps after the two marker tests of an iteration of the loop of
\* patch_pyproject_file, given inside_deps before it
InsideDeps(inside, stripped) ==
    /\ inside \/ StartsWith(stripped, <<"d", "e", "p", "e", "n", "d", "e", "n", "c", "i", "e", "s", " ", "=", " ", "[">>)
    /\ ~StartsWith(stripped, <<"]">>)

\* one iteration of the loop of patch_pyproject_file, inside being
\* inside_deps after the marker tests; k is the first entry of outdated with
\* pkg == name and old_version in line (0 if none)
PatchPyprojectLine(path, line, inside, entries) ==
    LET Patch(k) ==
            IF k = 0 THEN Kept(line)
            ELSE Replaced(path, Strip(line),
                          SubBound(line, 1, <<">", "=">> \o entries[k][3]))
        Match(pkg) ==
            IF pkg # None
            THEN Patch(First({m \in 1..Len(entries) :
                                pkg = entries[m][1] /\ Contains(line, entries[m][2])}))
            ELSE Kept(line)
        Scan(stripped) ==
            IF inside /\ stripped # << >>
            THEN Match(get_line_package(stripped))
            ELSE Kept(line)
    IN  Scan(Strip(line))

\* the loop of patch_pyproject_file from line j on, inside being
\* inside_deps when the iteration of line j begins
RECURSIVE PatchPyprojectFrom(_, _, _, _, _)
PatchPyprojectFrom(path, lines, j, inside, entries) ==
    LET Iterate(now_inside) ==
            Join(PatchPyprojectLine(path, lines[j], now_inside, entries),
                 PatchPyprojectFrom(path, lines, j + 1, now_inside, entries))
    IN  IF j > Len(lines) THEN [lines |-> << >>, printed |-> << >>]
        ELSE Iterate(InsideDeps(inside, Strip(lines[j])))

\* patch_pyproject_file, up to the write
patch_pyproject_file(path, lines, entries) ==
    PatchPyprojectFrom(path, lines, 1, FALSE, entries)

\* where a match of rf"{pkg}\s*[<>=!~]=?\s*{old_version}" starting at p
\* ends (0: no match)
SetupMatchEnd(s, p, pkg, old_version) ==
    LET Version(q3) ==
            IF StartsWithAt(s, q3, old_version)
            THEN q3 + Len(old_version) - 1
            ELSE 0
        Operator(q1) ==
            IF q1 <= Len(s) /\ s[q1] \in OpChar
            THEN Version(SkipWhile(s, IF q1 + 1 <= Len(s) /\ s[q1 + 1] = "="
                                      THEN q1 + 2 ELSE q1 + 1,
                                   Whitespace))
            ELSE 0
    IN  IF ~StartsWithAt(s, p, pkg) THEN 0
        ELSE Operator(SkipWhile(s, p + Len(pkg), Whitespace))

\* pattern.search(line)
SetupSearch(s, pkg, old_version) ==
    \E p \in 1..Len(s) : SetupMatchEnd(s, p, pkg, old_version) > 0

\* pattern.sub(repl, s) from position p on
RECURSIVE SubSetup(_, _, _, _, _)
SubSetup(s, p, pkg, old_version, repl) ==
    LET Step(e) ==
            IF e > 0 THEN repl \o SubSetup(s, e + 1, pkg, old_version, repl)
            ELSE <<s[p]>> \o SubSetup(s, p + 1, pkg, old_version, repl)
    IN  IF p > Len(s) THEN << >> ELSE Step(SetupMatchEnd(s, p, pkg, old_version))

\* one iteration of the loop of patch_setup_py; k is the first entry of
\* outdated whose pattern is found in the line (0 if none)
PatchSetupLine(path, line, entries) ==
    LET Patch(k) ==
            IF k = 0 THEN Kept(line)
            ELSE Replaced(path, Strip(line),
                          SubSetup(line, 1, entries[k][1], entries[k][2],
                                   entries[k][1] \o <<">", "=">> \o entries[k][3]))
    IN  Patch(First({m \in 1..Len(entries) :
                       SetupSearch(line, entries[m][1], entries[m][2])}))

\* the loop of patch_setup_py from line j on
RECURSIVE PatchSetupFrom(_, _, _, _)
PatchSetupFrom(path, lines, j, entries) ==
    IF j > Len(lines) THEN [lines |-> << >>, printed |-> << >>]
    ELSE Join(PatchSetupLine(path, lines[j], entries),
              PatchSetupFrom(path, lines, j + 1, entries))

\* patch_setup_py, up to the write
patch_setup_py(path, lines, entries) ==
    PatchSetupFrom(path, lines, 1, entries)

---------------------------------------------------------------------------
(* The working tree, the index and the inputs of the model.                *)

REQUIREMENTS == "requirements.txt"

PYPROJECT == "pyproject.toml"

SETUP_PY == "setup.py"

Paths == {REQUIREMENTS, PYPROJECT, SETUP_PY}

\* a path os.path.exists() is False for
Absent == [exists |-> FALSE, lines |-> << >>]

File(lines) == [exists |-> TRUE, lines |-> lines]

\* the packages the index knows
PkgNames == {<<"f", "o", "o">>, <<"b", "a", "r">>}

\* the ages, in seconds, of the releases of a generated response: half a
\* year, exactly the window (730.5 days), the window plus 0.01 days, the
\* first whole day past the window (731 days), three years
Ages ==
    { SecondsPerYear \div 2,
      SPEC0_DEP_AGE_YEARS * SecondsPerYear,
      SPEC0_DEP_AGE_YEARS * SecondsPerYear + SecondsPerDay \div 100,
      ((SPEC0_DEP_AGE_YEARS * SecondsPerYear) \div SecondsPerDay + 1) * SecondsPerDay,
      3 * SecondsPerYear }

\* the keys of a generated "releases" mapping, in document order
VersionKeys == << <<"1", ".", "0">>, <<"2", ".", "0">>, <<"1", ".", "4", ".", "2">>, <<"2", ".", "0", ".", "1">> >>

\* what a key of "releases" may map to
ReleaseKinds ==
    {[files |-> "none", time |-> 0], [files |-> "notime", time |-> 0]}
    \cup {[files |-> "time", time |-> Now - a] : a \in Ages}

\* the generated "releases" mappings: up to MaxReleases keys
Histories ==
    UNION { { [k \in 1..n |-> [version |-> VersionKeys[k],
                               files |-> f[k].files, time |-> f[k].time]]
              : f \in [1..n -> ReleaseKinds] }
            : n \in 0..MaxReleases }

\* a release uploaded tenths/10 years ago
Aged(ver, tenths) ==
    [version |-> ver, files |-> "time",
     time |-> Now - (tenths * SecondsPerYear) \div 10]

\* the release history of the selection scenario: ages 0.5, 3.0, 1.0, 1.9
\* and 2.1 years
ScenarioHistory ==
    << Aged(<<"2", ".", "0">>, 5), Aged(<<"1", ".", "0">>, 30), Aged(<<"1", ".", "6">>, 10),
       Aged(<<"1", ".", "4", ".", "2">>, 19), Aged(<<"1", ".", "2">>, 21) >>

\* the bodies the index may serve for a package
Responses ==
    {[ok |-> TRUE, releases |-> h] : h \in Histories \cup {ScenarioHistory}}

\* requests.get(url) for pkg_name: net is FALSE when the request fails
Fetch(pkg_name, net) ==
    IF net /\ pkg_name \in DOMAIN index THEN index[pkg_name] ELSE HttpError

\* the requirements.txt files of a run of main
RequirementsFiles ==
    { << <<"#", " ", "p", "i", "n", "n", "e", "d", " ", "i", "n", "t", "e", "n", "t", "i", "o", "n", "a", "l", "l", "y", "\n">>, <<"f", "o", "o", ">", "=", "1", ".", "0", "\n">>, <<"\n">>, <<"b", "a", "r", "=", "=", "2", ".", "0", "\n">> >>,
      << <<"f", "o", "o", "[", "x", "]", ">", "=", "1", ".", "0", "\n">> >>,
      << <<"f", "o", "o", "\n">>, <<"b", "a", "r", "<", "2", ".", "0", "\n">>, <<"-", "r", " ", "b", "a", "s", "e", ".", "t", "x", "t", "\n">> >>,
      << <<"b", "a", "r", "=", "=", "2", ".", "0", "\n">>, <<"f", "o", "o", " ", ">", "=", " ", "0", "1", ".", "0">> >> }

\* the pyproject.toml files of a run of main
PyprojectFiles ==
    { << <<"[", "p", "r", "o", "j", "e", "c", "t", "]", "\n">>, <<"d", "e", "p", "e", "n", "d", "e", "n", "c", "i", "e", "s", " ", "=", " ", "[", "\n">>, <<" ", " ", "\"", "f", "o", "o", ">", "=", "1", ".", "0", "\"", ",", "\n">>,
         <<" ", " ", "\"", "b", "a", "r", "=", "=", "2", ".", "0", "\"", ",", "\n">>, <<"]", "\n">> >> }

\* the setup.py files of a run of main
SetupFiles ==
    { << <<"s", "e", "t", "u", "p", "(", "\n">>, <<" ", " ", " ", " ", "i", "n", "s", "t", "a", "l", "l", "_", "r", "e", "q", "u", "i", "r", "e", "s", "=", "[", "\"", "b", "a", "r", "=", "=", "2", ".", "0", "\"", ",", " ", "\"", "f", "o", "o", ">", "=", "1", ".", "0", "\"", "]", ",", "\n">>,
         <<")", "\n">> >> }

\* the lines of the files handed to patch_requirements_file in SpecRewrite
RequirementsCorpus ==
    { <<"#", " ", "p", "i", "n", "n", "e", "d", " ", "i", "n", "t", "e", "n", "t", "i", "o", "n", "a", "l", "l", "y", "\n">>, <<"\n">>, <<"f", "o", "o", ">", "=", "1", ".", "0", "\n">>, <<"b", "a", "r", "=", "=", "2", ".", "0", "\n">>,
      <<"f", "o", "o", "[", "x", "]", ">", "=", "1", ".", "0", "\n">>, <<"f", "o", "o", "b", "a", "r", ">", "=", "1", ".", "0", "\n">>, <<"f", "o", "o", " ", ">", "=", " ", "1", ".", "0">> }

\* the lines of the files handed to patch_pyproject_file in SpecRewrite
PyprojectCorpus ==
    { <<"d", "e", "p", "e", "n", "d", "e", "n", "c", "i", "e", "s", " ", "=", " ", "[", "\n">>, <<"d", "e", "p", "e", "n", "d", "e", "n", "c", "i", "e", "s", " ", "=", " ", "[", "\"", "b", "a", "r", "=", "=", "2", ".", "0", "\"", "]", "\n">>,
      <<" ", " ", "\"", "f", "o", "o", ">", "=", "1", ".", "0", "\"", ",", "\n">>, <<" ", " ", "\"", "b", "a", "r", ">", "2", ".", "0", "\"", ",", " ", "#", " ", "f", "o", "o", " ", "1", ".", "0", "\n">>, <<"]", "\n">>, <<"\n">> }

\* the lines of the files handed to patch_setup_py in SpecRewrite
SetupCorpus ==
    { <<"s", "e", "t", "u", "p", "(", "\n">>, <<" ", " ", " ", " ", "i", "n", "s", "t", "a", "l", "l", "_", "r", "e", "q", "u", "i", "r", "e", "s", "=", "[", "\"", "b", "a", "r", "=", "=", "2", ".", "0", "\"", "]", "\n">>,
      <<"#", " ", "f", "o", "o", ">", "=", "1", ".", "0", " ", "i", "s", " ", "p", "i", "n", "n", "e", "d", "\n">>, <<" ", " ", " ", " ", "\"", "x", "f", "o", "o", ">", "=", "1", ".", "0", "\"", ",", "\n">>, <<" ", " ", " ", " ", "\"", "f", "o", "o", " ", ">", "=", " ", "1", ".", "0", "\"", ",", "\n">> }

\* readlines() returns lines that end in "\n", but for the last
WellFormedFile(lines) ==
    \A j \in 1..Len(lines) :
        /\ lines[j] # << >>
        /\ j < Len(lines) => lines[j][Len(lines[j])] = "\n"

\* the files of up to MaxLines lines over a corpus
FilesOver(corpus) ==
    { f \in UNION {[1..n -> corpus] : n \in 0..MaxLines} : WellFormedFile(f) }

CorpusOf(path) ==
    IF path = REQUIREMENTS THEN RequirementsCorpus
    ELSE IF path = PYPROJECT THEN PyprojectCorpus
    ELSE SetupCorpus

\* the entries <<pkg, old_version, new_version>> of SpecRewrite
OutdatedEntries ==
    { << <<"f", "o", "o">>, <<"1", ".", "0">>, <<"1", ".", "4", ".", "2">> >>,
      << <<"b", "a", "r">>, <<"2", ".", "0">>, <<"2", ".", "5", ".", "0">> >>,
      << <<"b", "a", "r">>, <<"2", ".", "0">>, <<"2", ".", "0", ".", "1">> >> }

\* the outdated lists of SpecRewrite: one to MaxOutdated entries
OutdatedLists == UNION {[1..n -> OutdatedEntries] : n \in 1..MaxOutdated}

\* the versions looked up in SpecEval
DeclaredVersions == { <<"1", ".", "0">>, <<"0", "2", ".", "0">>, <<"1", ".", "4", ".", "2">> }

---------------------------------------------------------------------------
(* Calls shared by the specifications.                                     *)

\* the write-back without the dry_run test
WriteBackAlways(path, new_lines) ==
    [disk EXCEPT ![path] = File(new_lines)]

\* the disk after "if not dry_run: open(path, 'w').writelines(new_lines)"
WriteBack(path, new_lines) ==
    IF dry_run THEN disk ELSE [disk EXCEPT ![path] = File(new_lines)]

\* a rewriter called on path: r is what it computed from the file on disk
CallRewriter(path, r) ==
    /\ disk' = WriteBack(path, r.lines)
    /\ log' = log \o r.printed
    /\ changed' = IF r.lines # disk[path].lines THEN changed \cup {path} ELSE changed
    /\ visited' = visited \cup {path}

\* the result of the rewriter of path on lines
Rewritten(path, lines, entries) ==
    IF path = REQUIREMENTS THEN patch_requirements_file(path, lines, entries)
    ELSE IF path = PYPROJECT THEN patch_pyproject_file(path, lines, entries)
    ELSE patch_setup_py(path, lines, entries)

mainLocals == << deps, i, outdated_pkgs, evals >>

treeVars == << disk, log, changed, visited >>

publishVars == << git, pr >>

rewriteVars == << target, disk1 >>

evalVars == << resp, version, release_date, outdated, latest >>

inputVars == << dry_run, disk0, index >>

\* the variables a specification does not use
NoRun ==
    /\ deps = << >> /\ i = 0 /\ evals = << >>
    /\ index = [p \in PkgNames |-> HttpError]
    /\ git = << >> /\ pr = "none"

NoRewrite == target = REQUIREMENTS /\ disk1 = << >>

NoEval ==
    /\ resp = HttpError /\ version = None /\ release_date = None
    /\ outdated = "unset" /\ latest = None

---------------------------------------------------------------------------
(* Spec: one run of main(dry_run).                                         *)

Init ==
    /\ pc = "start"
    /\ dry_run \in BOOLEAN
    /\ \E req \in {File(f) : f \in RequirementsFiles} \cup {Absent},
          py \in {File(f) : f \in PyprojectFiles} \cup {Absent},
          su \in {File(f) : f \in SetupFiles} \cup {Absent} :
            disk = [p \in Paths |->
                      IF p = REQUIREMENTS THEN req
                      ELSE IF p = PYPROJECT THEN py ELSE su]
    /\ disk0 = disk
    /\ \E r \in Responses : index = [p \in PkgNames |-> r]
    /\ deps = << >> /\ i = 0 /\ outdated_pkgs = << >> /\ evals = << >>
    /\ log = << >> /\ changed = {} /\ visited = {}
    /\ git = << >> /\ pr = "none"
    /\ NoRewrite /\ NoEval

\* main, lines 228-234: the existence test and parse_requirements_txt
MainStart ==
    /\ pc = "start"
    /\ IF ~disk[REQUIREMENTS].exists
       THEN /\ pc' = "ret_no_requirements"
            /\ UNCHANGED << deps, i >>
       ELSE /\ deps' = parse_requirements_txt(disk[REQUIREMENTS].lines)
            /\ i' = 1
            /\ pc' = "loop"
    /\ UNCHANGED << outdated_pkgs, evals, treeVars, publishVars,
                    inputVars, rewriteVars, evalVars >>

\* what one iteration of the for loop finds for a parsed <<pkg, version>>,
\* net1 and net2 telling whether its two requests get through
Evaluate(parsed, net1, net2) ==
    LET Found(kind, new) ==
            [kind |-> kind, pkg |-> parsed[1], old |-> parsed[2], new |-> new]
        Replace(new) ==
            IF new = None THEN Found("no_replacement", None)
            ELSE Found("outdated", new)
        Check(date) ==
            IF date = None THEN Found("no_date", None)
            ELSE IF ~is_outdated(date, SPEC0_DEP_AGE_YEARS)
            THEN Found("compliant", None)
            ELSE Replace(get_latest_version(Fetch(parsed[1], net2)))
    IN  IF parsed[1] = None \/ parsed[2] = None THEN Found("skipped", None)
        ELSE Check(get_release_date(Fetch(parsed[1], net1), parsed[2]))

\* the iteration's "outdated_pkgs.append(...)", if it gets there
Appended(e) ==
    IF e.kind = "outdated"
    THEN Append(outdated_pkgs, <<e.pkg, e.old, e.new>>)
    ELSE outdated_pkgs

\* the loop gives up at the first lookup that finds nothing
EvalDepAborting ==
    /\ pc = "loop"
    /\ i <= Len(deps)
    /\ \E parsed \in extract_required_version(deps[i]),
          net1 \in BOOLEAN, net2 \in BOOLEAN :
         /\ evals' = Append(evals, Evaluate(parsed, net1, net2))
         /\ outdated_pkgs' = Appended(evals'[Len(evals')])
         /\ i' = IF evals'[Len(evals')].kind \in {"no_date", "no_replacement"}
                 THEN Len(deps) + 1 ELSE i + 1
    /\ UNCHANGED << pc, deps, treeVars, publishVars, inputVars,
                    rewriteVars, evalVars >>

\* main, lines 236-246: one iteration of the for loop
EvalDep ==
    /\ pc = "loop"
    /\ i <= Len(deps)
    /\ \E parsed \in extract_required_version(deps[i]),
          net1 \in BOOLEAN, net2 \in BOOLEAN :
         /\ evals' = Append(evals, Evaluate(parsed, net1, net2))
         /\ outdated_pkgs' = Appended(evals'[Len(evals')])
    /\ i' = i + 1
    /\ UNCHANGED << pc, deps, treeVars, publishVars, inputVars,
                    rewriteVars, evalVars >>

\* main, lines 248-251: the end of the loop
LoopExit ==
    /\ pc = "loop"
    /\ i > Len(deps)
    /\ pc' = IF outdated_pkgs = << >> THEN "ret_compliant" ELSE "patch_requirements"
    /\ UNCHANGED << mainLocals, treeVars, publishVars, inputVars,
                    rewriteVars, evalVars >>

\* main, lines 252-253
PatchRequirements ==
    /\ pc = "patch_requirements"
    /\ IF disk[REQUIREMENTS].exists
       THEN CallRewriter(REQUIREMENTS,
                patch_requirements_file(REQUIREMENTS, disk[REQUIREMENTS].lines,
                                        outdated_pkgs))
       ELSE UNCHANGED treeVars
    /\ pc' = "patch_pyproject"
    /\ UNCHANGED << mainLocals, publishVars, inputVars, rewriteVars, evalVars >>

\* main, lines 254-255
PatchPyproject ==
    /\ pc = "patch_pyproject"
    /\ IF disk[PYPROJECT].exists
       THEN CallRewriter(PYPROJECT,
                patch_pyproject_file(PYPROJECT, disk[PYPROJECT].lines,
                                     outdated_pkgs))
       ELSE UNCHANGED treeVars
    /\ pc' = "patch_setup_py"
    /\ UNCHANGED << mainLocals, publishVars, inputVars, rewriteVars, evalVars >>

\* setup.py rewritten only next to a pyproject.toml
PatchSetupPyNextToPyproject ==
    /\ pc = "patch_setup_py"
    /\ IF disk[SETUP_PY].exists /\ disk[PYPROJECT].exists
       THEN CallRewriter(SETUP_PY,
                patch_setup_py(SETUP_PY, disk[SETUP_PY].lines, outdated_pkgs))
       ELSE UNCHANGED treeVars
    /\ pc' = "publish"
    /\ UNCHANGED << mainLocals, publishVars, inputVars, rewriteVars, evalVars >>

\* main, lines 256-257
PatchSetupPy ==
    /\ pc = "patch_setup_py"
    /\ IF disk[SETUP_PY].exists
       THEN CallRewriter(SETUP_PY,
                patch_setup_py(SETUP_PY, disk[SETUP_PY].lines, outdated_pkgs))
       ELSE UNCHANGED treeVars
    /\ pc' = "publish"
    /\ UNCHANGED << mainLocals, publishVars, inputVars, rewriteVars, evalVars >>

\* the git subcommands of commit_and_open_pr, in order
GitCommands == << "config", "config", "checkout", "add", "commit", "push" >>

\* main, lines 259-260: commit_and_open_pr(branch, dry_run); github tells
\* whether PyGithub was imported, creds whether GITHUB_TOKEN and
\* GITHUB_REPOSITORY are set
Publish ==
    /\ pc = "publish"
    /\ \E github \in BOOLEAN, creds \in BOOLEAN :
         IF dry_run
         THEN /\ pr' = "dry"
              /\ git' = git
         ELSE /\ git' = git \o GitCommands
              /\ pr' = IF ~github THEN "no_github"
                       ELSE IF ~creds THEN "no_creds"
                       ELSE "opened"
    /\ pc' = "ret"
    /\ UNCHANGED << mainLocals, treeVars, inputVars, rewriteVars, evalVars >>

Next ==
    \/ MainStart
    \/ EvalDep
    \/ LoopExit
    \/ PatchRequirements
    \/ PatchPyproject
    \/ PatchSetupPy
    \/ Publish

Spec == Init /\ [][Next]_vars

---------------------------------------------------------------------------
(* SpecRewrite: a rewriter called twice on a file, with the same outdated  *)
(* list, writing to disk.                                                  *)

InitRewrite ==
    /\ pc = "call1"
    /\ dry_run = FALSE
    /\ target \in Paths
    /\ \E f \in FilesOver(CorpusOf(target)) :
         disk = [p \in Paths |-> IF p = target THEN File(f) ELSE Absent]
    /\ disk0 = disk
    /\ outdated_pkgs \in OutdatedLists
    /\ disk1 = << >>
    /\ log = << >> /\ changed = {} /\ visited = {}
    /\ NoRun /\ NoEval

\* what a call leaves besides the tree: the first result kept, the
\* position moved on
Called ==
    /\ pc \in {"call1", "call2"}
    /\ disk1' = IF pc = "call1" THEN disk'[target].lines ELSE disk1
    /\ pc' = IF pc = "call1" THEN "call2" ELSE "called"
    /\ UNCHANGED << target, mainLocals, publishVars, inputVars, evalVars >>

\* patch_requirements_file("requirements.txt", outdated)
CallPatchRequirements ==
    /\ target = REQUIREMENTS
    /\ CallRewriter(REQUIREMENTS,
           patch_requirements_file(REQUIREMENTS, disk[REQUIREMENTS].lines,
                                   outdated_pkgs))
    /\ Called

\* patch_pyproject_file("pyproject.toml", outdated)
CallPatchPyproject ==
    /\ target = PYPROJECT
    /\ CallRewriter(PYPROJECT,
           patch_pyproject_file(PYPROJECT, disk[PYPROJECT].lines, outdated_pkgs))
    /\ Called

\* patch_setup_py("setup.py", outdated)
CallPatchSetupPy ==
    /\ target = SETUP_PY
    /\ CallRewriter(SETUP_PY,
           patch_setup_py(SETUP_PY, disk[SETUP_PY].lines, outdated_pkgs))
    /\ Called

NextRewrite ==
    \/ CallPatchRequirements
    \/ CallPatchPyproject
    \/ CallPatchSetupPy

SpecRewrite == InitRewrite /\ [][NextRewrite]_vars

---------------------------------------------------------------------------
(* SpecEval: get_release_date, is_outdated and get_latest_version called   *)
(* on an index response.                                                   *)

InitEval ==
    /\ pc = "date"
    /\ resp \in Responses \cup {HttpError}
    /\ version \in DeclaredVersions
    /\ release_date = None
    /\ outdated = "unset"
    /\ latest = None
    /\ dry_run = FALSE
    /\ disk = [p \in Paths |-> Absent]
    /\ disk0 = disk
    /\ outdated_pkgs = << >>
    /\ log = << >> /\ changed = {} /\ visited = {}
    /\ NoRun /\ NoRewrite

\* release_date = get_release_date(pkg, version)
CallGetReleaseDate ==
    /\ pc = "date"
    /\ release_date' = get_release_date(resp, version)
    /\ pc' = "outdated"
    /\ UNCHANGED << resp, version, outdated, latest, mainLocals, treeVars,
                    publishVars, inputVars, rewriteVars >>

\* is_outdated(release_date, SPEC0_DEP_AGE_YEARS), by its truth value
CallIsOutdated ==
    /\ pc = "outdated"
    /\ outdated' = IF is_outdated(release_date, SPEC0_DEP_AGE_YEARS)
                   THEN "yes" ELSE "no"
    /\ pc' = "latest"
    /\ UNCHANGED << resp, version, release_date, latest, mainLocals, treeVars,
                    publishVars, inputVars, rewriteVars >>

\* latest = get_latest_version(pkg)
CallGetLatestVersion ==
    /\ pc = "latest"
    /\ latest' = get_latest_version(resp)
    /\ pc' = "evaluated"
    /\ UNCHANGED << resp, version, release_date, outdated, mainLocals, treeVars,
                    publishVars, inputVars, rewriteVars >>

NextEval ==
    \/ CallGetReleaseDate
    \/ CallIsOutdated
    \/ CallGetLatestVersion

SpecEval == InitEval /\ [][NextEval]_vars

---------------------------------------------------------------------------
(* Properties.                                                             *)

\* main has returned
Returned == pc \in {"ret_no_requirements", "ret_compliant", "ret"}

\* the paths that existed when the run began
Present == {p \in Paths : disk0[p].exists}

\* the positions of the double quotes of a line
QuotePositions(s) == {p \in 1..Len(s) : s[p] = "\""}

\* the number of double quotes of a line up to position p
QuoteRank(s, p) == Cardinality({q \in QuotePositions(s) : q <= p})

\* the texts between the 1st and 2nd, 3rd and 4th, ... double quote of a line
QuotedStrings(s) ==
    { SubSeq(s, ab[1] + 1, ab[2] - 1) :
        ab \in { qq \in QuotePositions(s) \X QuotePositions(s) :
                   /\ QuoteRank(s, qq[1]) % 2 = 1
                   /\ QuoteRank(s, qq[2]) = QuoteRank(s, qq[1]) + 1 } }

\* the names of the requirement strings among a set of texts
RequirementNames(texts) ==
    { Requirement(t).name : t \in {u \in texts : Requirement(u).ok} }

\* the packages a line of a declaration file declares: none for a comment
\* or a blank line; the requirement of a requirements.txt line; the quoted
\* requirement strings of a pyproject.toml or setup.py line
DeclaredNames(path, line) ==
    IF Strip(line) = << >> \/ StartsWith(Strip(line), <<"#">>) THEN {}
    ELSE IF path = REQUIREMENTS THEN RequirementNames({Strip(line)})
    ELSE RequirementNames(QuotedStrings(line))

\* the package names of an outdated list
OutdatedNames(entries) == {entries[k][1] : k \in 1..Len(entries)}

\* C1: after a call of a rewriter (patch_requirements_file,
\* patch_pyproject_file or patch_setup_py) the file has as many lines as
\* before, and every comment line, blank line and declaration of a package
\* whose name is not in the outdated set is byte-identical and in place.
C1_NonInterference ==
    pc = "call2" =>
        /\ Len(disk[target].lines) = Len(disk0[target].lines)
        /\ \A j \in 1..Len(disk0[target].lines) :
             DeclaredNames(target, disk0[target].lines[j])
                 \cap OutdatedNames(outdated_pkgs) = {}
             => disk[target].lines[j] = disk0[target].lines[j]

\* C4: a second call of patch_requirements_file or patch_setup_py with the
\* same outdated set leaves the output of the first call as it is.
C4_Idempotent ==
    pc = "called" /\ target \in {REQUIREMENTS, SETUP_PY}
    => disk[target].lines = disk1

\* a "]" of the line outside double quotes, from position p on
ClosesArray(line, p) ==
    \E q \in p..Len(line) :
        /\ line[q] = "]"
        /\ QuoteRank(line, q) % 2 = 0

\* the line opens the dependency array
OpensArray(line) == StartsWith(Strip(line), <<"d", "e", "p", "e", "n", "d", "e", "n", "c", "i", "e", "s", " ", "=", " ", "[">>)

\* line j lies in the dependency array block: after a line k that opens the
\* array, with the array closed neither on line k nor on a line up to j
InsideBlock(lines, j) ==
    \E k \in 1..(j - 1) :
        /\ OpensArray(lines[k])
        /\ ~ClosesArray(lines[k], Len(<<"d", "e", "p", "e", "n", "d", "e", "n", "c", "i", "e", "s", " ", "=", " ", "[">>) + 1)
        /\ \A m \in (k + 1)..j : ~ClosesArray(lines[m], 1)

\* C9: patch_pyproject_file changes a line only if the line lies in the
\* dependency array block, its package name is that of an outdated entry
\* and its text contains that entry's declared version; a line outside the
\* block is passed through, also after an array opened and closed on one line.
C9_OnlyInsideBlock ==
    pc = "call2" /\ target = PYPROJECT =>
        \A j \in 1..Len(disk0[PYPROJECT].lines) :
            disk[PYPROJECT].lines[j] # disk0[PYPROJECT].lines[j]
            => /\ InsideBlock(disk0[PYPROJECT].lines, j)
               /\ \E k \in 1..Len(outdated_pkgs) :
                    /\ get_line_package(disk0[PYPROJECT].lines[j]) = outdated_pkgs[k][1]
                    /\ Contains(disk0[PYPROJECT].lines[j], outdated_pkgs[k][2])

\* the releases of a response published within [now - window, now]
InWindow(releases) ==
    { k \in 1..Len(releases) :
        /\ releases[k].files = "time"
        /\ Now - SPEC0_DEP_AGE_YEARS * SecondsPerYear <= releases[k].time
        /\ releases[k].time <= Now }

\* C2: get_latest_version returns a version published within the window
\* than which no version within the window was published earlier, and
\* returns None exactly when no version is within the window; for the
\* history aged {0.5, 1.0, 1.9, 2.1, 3.0} years it returns the one aged 1.9.
C2_OldestCompliant ==
    pc = "evaluated" =>
        /\ latest = None <=> (~resp.ok \/ InWindow(resp.releases) = {})
        /\ latest # None =>
             \E k \in InWindow(resp.releases) :
                /\ latest = NormVersion(resp.releases[k].version)
                /\ \A m \in InWindow(resp.releases) :
                     resp.releases[k].time <= resp.releases[m].time
        /\ resp.releases = ScenarioHistory => latest = <<"1", ".", "4", ".", "2">>

\* C2, reached: the scenario history was evaluated and gave the version
\* aged 1.9 years
C2_Witness ==
    /\ pc = "evaluated"
    /\ resp.releases = ScenarioHistory
    /\ latest = <<"1", ".", "4", ".", "2">>

\* the age in seconds of the looked-up release
AgeSeconds == Now - release_date[1]

\* the window in seconds: 730.5 days for two years
WindowSeconds == SPEC0_DEP_AGE_YEARS * SecondsPerYear

\* C3 as stated: a version aged exactly the window (730.5 days) is not
\* outdated and a version aged the window plus 0.01 days is outdated.
C3_BoundaryAsStated ==
    pc \in {"latest", "evaluated"} /\ release_date # None =>
        /\ AgeSeconds = WindowSeconds => outdated = "no"
        /\ AgeSeconds = WindowSeconds + SecondsPerDay \div 100 => outdated = "yes"

\* C3, amended: is_outdated compares whole days / 365.25 with the window,
\* strictly: a version aged exactly the window is not outdated, neither is
\* one aged the window plus 0.01 days (both are 730 whole days old), and a
\* version is outdated exactly from the first whole day past the window on
\* (731 days for two years); no release date, not outdated.
C3_WholeDays ==
    pc \in {"latest", "evaluated"} =>
        /\ release_date = None => outdated = "no"
        /\ release_date # None =>
             /\ outdated = "yes" <=>
                  AgeSeconds >= (WindowSeconds \div SecondsPerDay + 1) * SecondsPerDay
             /\ AgeSeconds = WindowSeconds => outdated = "no"
             /\ AgeSeconds = WindowSeconds + SecondsPerDay \div 100 => outdated = "no"

\* C3, reached: a release aged the window plus 0.01 days was found not
\* outdated
C3_Witness ==
    /\ pc = "latest"
    /\ release_date = <<Now - (WindowSeconds + SecondsPerDay \div 100)>>
    /\ outdated = "no"

\* the messages a rewriter prints for the lines it would change
WouldBeLogged(path) ==
    \A j \in 1..Len(disk0[path].lines) :
        Rewritten(path, disk0[path].lines, outdated_pkgs).lines[j]
            # disk0[path].lines[j]
        => \E n \in 1..Len(log) :
              log[n] = << path, Strip(disk0[path].lines[j]),
                          Strip(Rewritten(path, disk0[path].lines,
                                          outdated_pkgs).lines[j]) >>

\* C5: in a run of main with dry_run the three files stay byte-identical
\* on disk, each rewriter called still prints the changes it would make,
\* and no git command is run and no pull request opened.
C5_DryRunNoOp ==
    dry_run =>
        /\ disk = disk0
        /\ git = << >>
        /\ pr \in {"none", "dry"}
        /\ \A path \in visited : WouldBeLogged(path)

\* C5, reached: a dry run went through the rewriters, which would have
\* changed a file and printed the change, and through commit_and_open_pr
C5_Witness ==
    /\ dry_run
    /\ pc = "ret"
    /\ changed # {}
    /\ log # << >>
    /\ pr = "dry"

\* C6: commit_and_open_pr is invoked only if a rewriter changed at least
\* one line of requirements.txt, pyproject.toml or setup.py in the run.
C6_PublishOnlyIfRewritten == pr # "none" => changed # {}

\* C7 as stated: the absence of any one declaration file does not end the
\* run: main returns without evaluating only if no declaration file is
\* present, and a run that rewrites calls the rewriter of every file present.
C7_AnyAbsenceSkipped ==
    /\ pc = "ret_no_requirements" => Present = {}
    /\ pc = "ret" => visited = Present

\* C7, amended: the absence of pyproject.toml or of setup.py is not an
\* error: that rewriter is skipped, every dependency is still evaluated and
\* every file present is rewritten in the same run; the absence of
\* requirements.txt ends the run at once, with nothing evaluated, rewritten
\* or published, whatever other declaration file is present.
C7_OnlyRequirementsRequired ==
    /\ Returned /\ REQUIREMENTS \in Present =>
         /\ pc # "ret_no_requirements"
         /\ Len(evals) = Len(deps)
         /\ pc = "ret" =>
              /\ visited = Present
              /\ ~dry_run =>
                   \A p \in Present :
                      disk[p].lines = Rewritten(p, disk0[p].lines, outdated_pkgs).lines
    /\ pc # "start" /\ REQUIREMENTS \notin Present =>
         /\ pc = "ret_no_requirements"
         /\ evals = << >> /\ visited = {} /\ disk = disk0 /\ pr = "none"

\* C7, reached: a run without pyproject.toml rewrote setup.py
C7_Witness ==
    /\ pc = "ret"
    /\ ~dry_run
    /\ PYPROJECT \notin Present
    /\ SETUP_PY \in changed
    /\ disk[SETUP_PY] # disk0[SETUP_PY]

\* the entries main appends for a sequence of loop results, in order
RECURSIVE Selected(_)
Selected(found) ==
    IF found = << >> THEN << >>
    ELSE Selected(Take(found, Len(found) - 1))
         \o (IF found[Len(found)].kind = "outdated"
             THEN << << found[Len(found)].pkg, found[Len(found)].old,
                        found[Len(found)].new >> >>
             ELSE << >>)

\* C8: a lookup that fails or finds nothing never ends the loop: every
\* dependency is evaluated, in declaration order; a package whose
\* release-date lookup or replacement lookup came back empty is left out;
\* and outdated_pkgs holds, in order, exactly the packages whose own release
\* date was found and is outdated and whose replacement was found.
C8_FailedLookupSkipped ==
    /\ Returned /\ REQUIREMENTS \in Present => Len(evals) = Len(deps)
    /\ pc = "loop" => Len(evals) = i - 1
    /\ \A k \in 1..Len(evals) :
         /\ <<evals[k].pkg, evals[k].old>> \in extract_required_version(deps[k])
         /\ evals[k].kind = "outdated" =>
              /\ is_outdated(get_release_date(index[evals[k].pkg], evals[k].old),
                             SPEC0_DEP_AGE_YEARS)
              /\ evals[k].new = get_latest_version(index[evals[k].pkg])
              /\ evals[k].new # None
    /\ outdated_pkgs = Selected(evals)

\* C8, reached: a run in which one dependency's lookup came back empty and
\* a later dependency was found outdated and given a replacement
C8_Witness ==
    /\ pc = "ret"
    /\ \E k \in 1..Len(evals) :
         /\ evals[k].kind \in {"no_date", "no_replacement"}
         /\ \E m \in (k + 1)..Len(evals) : evals[m].kind = "outdated"

\* C10: the replacement version of every entry of outdated_pkgs is a
\* release of its package whose publication time the index gives and for
\* which is_outdated is false, and is_outdated is false for the release
\* date looked up for it.
C10_ReplacementCompliant ==
    \A k \in 1..Len(outdated_pkgs) :
        /\ \E r \in 1..Len(index[outdated_pkgs[k][1]].releases) :
             /\ NormVersion(index[outdated_pkgs[k][1]].releases[r].version)
                    = outdated_pkgs[k][3]
             /\ index[outdated_pkgs[k][1]].releases[r].files = "time"
             /\ ~is_outdated(<<index[outdated_pkgs[k][1]].releases[r].time>>,
                             SPEC0_DEP_AGE_YEARS)
        /\ ~is_outdated(get_release_date(index[outdated_pkgs[k][1]],
                                         outdated_pkgs[k][3]),
                        SPEC0_DEP_AGE_YEARS)

\* C10, reached: an entry whose replacement was published exactly the
\* window (730.5 days) before now
C10_Witness ==
    \E k \in 1..Len(outdated_pkgs) :
        get_release_date(index[outdated_pkgs[k][1]], outdated_pkgs[k][3])
            = <<Now - WindowSeconds>>

=============================================================================
